---- MODULE Spec2Model ----
(***************************************************************************)
(* A model of the image-tagging service: execute_insert_image (the         *)
(* transactional write path, src/src/create_image.rs) and query_images /   *)
(* query_image_by_id (the read path, src/src/query_images.rs), over the    *)
(* three tables of src/migration/src/m20220101_000001_create_table.rs.     *)
(*                                                                         *)
(* A call of execute_insert_image is a process that advances from one      *)
(* .await to the next; the tag resolutions that join_all polls together    *)
(* each have a position of their own.  A transaction's writes are kept in  *)
(* txn[p] until the commit and are visible to that transaction only; a     *)
(* read on the plain connection sees the committed tables.                 *)
(***************************************************************************)
EXTENDS Integers, Sequences, FiniteSets, TLC

\* ------------------------------------------------------------------ bounds
MaxCalls == 2
MaxTags == 2
MaxQueryTags == 2

Names == {"cat", "dog"}
Calls == 1..MaxCalls

SeqsUpTo(S, n) == UNION {[1..k -> S] : k \in 0..n}

\* ImageInput: a ready URL, or raw base64 data
ImageInputs ==
    { [kind |-> "ImageUrl", data |-> "http://example.com/a.png"],
      [kind |-> "ImageBase64", data |-> "iVBORw0KGgo="] }

\* Option<String>: <<>> is None, <<s>> is Some(s)
Labels == { <<>>, <<"my label">> }

\* the image fields of a NewImageRequest (POST /images): each an Option
NewImageRequests ==
    [image_url : {<<>>} \cup {<<i.data>> : i \in {x \in ImageInputs : x.kind = "ImageUrl"}},
     image_base64 : {<<>>} \cup {<<i.data>> : i \in {x \in ImageInputs : x.kind = "ImageBase64"}}]

\* a query-string value as its pieces: names, and "," where it has a comma
QueryStrings == { <<"cat">>, <<"cat", ",", "dog">> }

\* GetImagesQueryParams (GET /images): each an Option
GetImagesQueryParams ==
    [objects : {<<>>} \cup {<<s>> : s \in QueryStrings},
     some_objects : {<<>>} \cup {<<s>> : s \in QueryStrings}]

VARIABLES
    db,         \* the committed tables: [image, tag, image_tag]
    seq,        \* the auto-increment counters: [image, tag]
    pc,         \* pc[p]: the await point call p is at
    args,       \* args[p]: image_input, tags, label
    resolving,  \* resolving[p][i]: the i-th get_tag_id future of join_all
    new_image,  \* new_image[p]: the Model returned by the Image insert
    txn,        \* txn[p]: the uncommitted writes of p's transaction
    ret,        \* ret[p]: what the call returned
    q           \* the response of the read handler that ran in the last step

vars == <<db, seq, pc, args, resolving, new_image, txn, ret, q>>

\* ------------------------------------------------------------------ schema
\* Migration::up: three tables.  image.id and tag.id are auto-increment
\* primary keys; tag.name has no unique index; image_tag's primary key is
\* the pair (image_id, tag_id).
EmptyTables == [image |-> {}, tag |-> {}, image_tag |-> {}]

ImageRow(id, label, url) == [id |-> id, label |-> label, url |-> url]
TagRow(id, name) == [id |-> id, name |-> name]
ImageTagRow(image_id, tag_id) == [image_id |-> image_id, tag_id |-> tag_id]

\* (mutant) image_tag without its primary key
ImageTagNoPrimaryKey(rows, existing) == TRUE

\* the primary key of image_tag: a batch is accepted only if no two of its
\* rows, and no row of it and of the table, have the same (image_id, tag_id)
ImageTagPrimaryKeyOk(rows, existing) ==
    /\ \A i, j \in 1..Len(rows) : rows[i] = rows[j] => i = j
    /\ \A i \in 1..Len(rows) : rows[i] \notin existing

\* ------------------------------------------------------------------ helpers
Range(s) == {s[i] : i \in 1..Len(s)}

RECURSIVE Join(_, _)
\* Vec<String>::join(sep)
Join(strs, sep) ==
    IF Len(strs) = 0 THEN ""
    ELSE IF Len(strs) = 1 THEN strs[1]
    ELSE strs[1] \o sep \o Join(Tail(strs), sep)

generate_label(tags) ==
    IF Len(tags) = 0 THEN "An untagged image"
    ELSE "An image containing " \o Join(tags, ", ") \o "."

\* (mutant) the caller's label is ignored
create_image_model_generated(url, tags, label) ==
    [label |-> generate_label(tags), url |-> url]

create_image_model(url, tags, label) ==
    [label |-> IF Len(label) = 1 THEN label[1] ELSE generate_label(tags),
     url |-> url]

\* upload(base64str, id): the URL of the stored file, which embeds the id
upload(id) == "http://localhost:3000/files/" \o ToString(id) \o ".png"

\* ------------------------------------------------------------------ initial state
NoArgs ==
    [request |-> [image_url |-> <<>>, image_base64 |-> <<>>],
     image_input |-> [kind |-> "none", data |-> ""], tags |-> <<>>, label |-> <<>>]
NoImage == ImageRow(0, "", "")
NoRet == [kind |-> "None", at |-> "", id |-> 0]
NoFilter == [kind |-> "None", tags |-> <<>>]
NoRequest ==
    [image_url |-> <<>>, image_base64 |-> <<>>, objects |-> <<>>, some_objects |-> <<>>]
NoResponse ==
    [op |-> "none", request |-> NoRequest, filter |-> NoFilter, id |-> 0,
     status |-> 0, out |-> <<>>, db_err |-> FALSE]

Init ==
    /\ db = EmptyTables
    /\ seq = [image |-> 1, tag |-> 1]
    /\ pc = [p \in Calls |-> "idle"]
    /\ args = [p \in Calls |-> NoArgs]
    /\ resolving = [p \in Calls |-> <<>>]
    /\ new_image = [p \in Calls |-> NoImage]
    /\ txn = [p \in Calls |-> EmptyTables]
    /\ ret = [p \in Calls |-> NoRet]
    /\ q = NoResponse

\* ------------------------------------------------------------------ transactions
\* What the statements of p's transaction read: the committed rows and the
\* transaction's own writes.
TxnView(p) ==
    [image |-> db.image \cup txn[p].image,
     tag |-> db.tag \cup txn[p].tag,
     image_tag |-> db.image_tag \cup txn[p].image_tag]

\* txn.commit(): the transaction's writes become the committed rows
Committed(p) == TxnView(p)

\* (mutant) the writes of a dropped transaction stay
RolledBackKeepsWrites(p) == TxnView(p)

\* (mutant) the Tag rows of a dropped transaction stay
RolledBackKeepsTags(p) == [db EXCEPT !.tag = @ \cup txn[p].tag]

\* the DatabaseTransaction is dropped without a commit (an early return by
\* `?`, an unwinding panic, or the drop of the call's future): its writes
\* are rolled back
RolledBack(p) == db

\* the call has returned (or unwound): its transaction and its locals are gone
Return(p, to, result) ==
    /\ txn' = [txn EXCEPT ![p] = EmptyTables]
    /\ pc' = [pc EXCEPT ![p] = to]
    /\ ret' = [ret EXCEPT ![p] = result]
    /\ args' = [args EXCEPT ![p] = NoArgs]
    /\ resolving' = [resolving EXCEPT ![p] = <<>>]
    /\ new_image' = [new_image EXCEPT ![p] = NoImage]

\* a store error at step `at` is returned by `?`: the transaction is dropped
Abort(p, at) ==
    /\ db' = RolledBack(p)
    /\ Return(p, "failed", [kind |-> "Err", at |-> at, id |-> 0])

\* ------------------------------------------------------------------ post_image
\* (mutant) a request with both fields is taken as one with a URL
post_image_input_prefers_url(request) ==
    IF Len(request.image_url) = 1
    THEN [ok |-> TRUE, code |-> 0,
          image_input |-> [kind |-> "ImageUrl", data |-> request.image_url[1]]]
    ELSE IF Len(request.image_base64) = 1
    THEN [ok |-> TRUE, code |-> 0,
          image_input |-> [kind |-> "ImageBase64", data |-> request.image_base64[1]]]
    ELSE [ok |-> FALSE, code |-> 400, image_input |-> NoArgs.image_input]

\* the match on (request.image_url, request.image_base64): the ImageInput,
\* or a 400 for both or neither
post_image_input(request) ==
    IF Len(request.image_url) = 1 /\ Len(request.image_base64) = 0
    THEN [ok |-> TRUE, code |-> 0,
          image_input |-> [kind |-> "ImageUrl", data |-> request.image_url[1]]]
    ELSE IF Len(request.image_url) = 0 /\ Len(request.image_base64) = 1
    THEN [ok |-> TRUE, code |-> 0,
          image_input |-> [kind |-> "ImageBase64", data |-> request.image_base64[1]]]
    ELSE [ok |-> FALSE, code |-> 400, image_input |-> NoArgs.image_input]

\* POST /images with a request that the match refuses: the handler returns
\* the 400 by `?` before get_tags_for_image and execute_insert_image
PostImageBadRequest ==
    /\ \E request \in NewImageRequests :
          /\ ~post_image_input(request).ok
          /\ q' = [NoResponse EXCEPT
                      !.op = "post_image",
                      !.request.image_url = request.image_url,
                      !.request.image_base64 = request.image_base64,
                      !.status = post_image_input(request).code]
    /\ UNCHANGED <<db, seq, pc, args, resolving, new_image, txn, ret>>

\* ------------------------------------------------------------------ execute_insert_image
\* db.begin().  The caller's tags are drawn here; the request's image fields
\* (a request that post_image let through) and label, which the code first
\* reads when it builds the Image row, are drawn there.
Begin(p) ==
    /\ pc[p] = "idle"
    \* calls are numbered in the order they begin
    /\ \A o \in Calls : o < p => pc[o] # "idle"
    /\ \/ \E tags \in SeqsUpTo(Names, MaxTags) :
            /\ args' = [args EXCEPT ![p].tags = tags]
            /\ pc' = [pc EXCEPT ![p] = "resolve"]
            /\ resolving' = [resolving EXCEPT ![p] =
                  [i \in 1..Len(tags) |-> [st |-> "lookup", id |-> 0]]]
            /\ UNCHANGED <<db, txn, ret, new_image>>
       \/ Abort(p, "begin")
    /\ UNCHANGED seq
    /\ q' = NoResponse

\* get_tag_id, to its first await: Tag::find().filter(name = ..).one(txn)
GetTagIdFind(p, i) ==
    /\ pc[p] = "resolve"
    /\ i \in 1..Len(resolving[p])
    /\ resolving[p][i].st = "lookup"
    /\ LET existing == {t \in TxnView(p).tag : t.name = args[p].tags[i]} IN
        \/ \E t \in existing :
              resolving' = [resolving EXCEPT ![p][i] =
                                [st |-> "done", id |-> t.id]]
        \/ /\ existing = {}
           /\ resolving' = [resolving EXCEPT ![p][i].st = "insert"]
        \/ resolving' = [resolving EXCEPT ![p][i].st = "err"]
    /\ UNCHANGED <<db, seq, pc, args, new_image, txn, ret>>
    /\ q' = NoResponse

\* get_tag_id, to its second await: tag::ActiveModel{..}.insert(txn)
GetTagIdInsert(p, i) ==
    /\ pc[p] = "resolve"
    /\ i \in 1..Len(resolving[p])
    /\ resolving[p][i].st = "insert"
    /\ \/ /\ txn' = [txn EXCEPT ![p].tag = @ \cup {TagRow(seq.tag, args[p].tags[i])}]
          /\ seq' = [seq EXCEPT !.tag = @ + 1]
          /\ resolving' = [resolving EXCEPT ![p][i] =
                              [st |-> "done", id |-> seq.tag]]
       \/ /\ resolving' = [resolving EXCEPT ![p][i].st = "err"]
          /\ UNCHANGED <<txn, seq>>
    /\ UNCHANGED <<db, pc, args, new_image, ret>>
    /\ q' = NoResponse

\* join_all has every future's result, one of them an Err: collect()? returns it
ResolveFailed(p) ==
    /\ pc[p] = "resolve"
    /\ \A i \in 1..Len(resolving[p]) : resolving[p][i].st \in {"done", "err"}
    /\ \E i \in 1..Len(resolving[p]) : resolving[p][i].st = "err"
    /\ Abort(p, "resolve")
    /\ UNCHANGED seq
    /\ q' = NoResponse

\* (mutant) the failed resolutions are dropped from the results
collected_skipping_errors(p) ==
    \A i \in 1..Len(resolving[p]) : resolving[p][i].st \in {"done", "err"}

\* join_all(..).await has returned and collect::<Result<Vec<_>, _>>()? gave
\* the Vec: every future has finished, none with an Err
collected(p) == \A i \in 1..Len(resolving[p]) : resolving[p][i].st = "done"

\* the tag ids collected from join_all
tag_ids(p) == [i \in 1..Len(resolving[p]) |-> resolving[p][i].id]

\* create_image_model(url, &tags, label).insert(&txn)
InsertImage(p) ==
    /\ pc[p] = "resolve"
    /\ collected(p)
    /\ \/ \E request \in NewImageRequests, label \in Labels :
            LET image_input == post_image_input(request).image_input
                url == IF image_input.kind = "ImageUrl"
                       THEN image_input.data ELSE "temporary"
                m == create_image_model(url, args[p].tags, label)
                row == ImageRow(seq.image, m.label, m.url)
            IN /\ post_image_input(request).ok
               /\ args' = [args EXCEPT ![p].request = request,
                                       ![p].image_input = image_input,
                                       ![p].label = label]
               /\ txn' = [txn EXCEPT ![p].image = @ \cup {row}]
               /\ seq' = [seq EXCEPT !.image = @ + 1]
               /\ new_image' = [new_image EXCEPT ![p] = row]
               /\ pc' = [pc EXCEPT ![p] = "link"]
               /\ UNCHANGED <<db, ret, resolving>>
       \/ /\ Abort(p, "image_insert")
          /\ UNCHANGED seq
    /\ q' = NoResponse

\* the image_tag ActiveModels built from tag_ids, one per resolved id
image_tags(p) ==
    [i \in 1..Len(resolving[p]) |-> ImageTagRow(new_image[p].id, tag_ids(p)[i])]

\* ImageTag::insert_many(image_tags).exec(&txn).  The batch is passed as it
\* was built, with no check of its length or of repeated pairs.  The store
\* rejects a batch that repeats a primary key.  An empty batch makes
\* insert_many build an INSERT of no rows: whether that statement is taken or
\* refused is the library's and the store's matter, so either may happen.
\* Any batch may end in a store error.
InsertImageTags(p) ==
    /\ pc[p] = "link"
    /\ \/ /\ ImageTagPrimaryKeyOk(image_tags(p), TxnView(p).image_tag)
          /\ txn' = [txn EXCEPT ![p].image_tag = @ \cup Range(image_tags(p))]
          /\ pc' = [pc EXCEPT ![p] =
                IF args[p].image_input.kind = "ImageBase64" THEN "upload" ELSE "commit"]
          /\ UNCHANGED <<db, ret, args, resolving, new_image>>
       \/ /\ \/ ~ImageTagPrimaryKeyOk(image_tags(p), TxnView(p).image_tag)
             \/ Len(image_tags(p)) = 0
          /\ Abort(p, "junction_rejected")
       \/ Abort(p, "junction_insert")
    /\ UNCHANGED seq
    /\ q' = NoResponse

\* the ImageBase64 branch: upload(..), then updated_model.update(&txn)
UploadAndUpdateUrl(p) ==
    /\ pc[p] = "upload"
    /\ \/ /\ txn' = [txn EXCEPT ![p].image =
                {[new_image[p] EXCEPT !.url = upload(new_image[p].id)]}]
          /\ pc' = [pc EXCEPT ![p] = "commit"]
          /\ UNCHANGED <<db, ret, args, resolving, new_image>>
       \/ Abort(p, "url_update")
       \/ \* upload returns a String, not a Result: a failure in it panics
          /\ db' = RolledBack(p)
          /\ Return(p, "panicked", [kind |-> "Panic", at |-> "upload", id |-> 0])
    /\ UNCHANGED seq
    /\ q' = NoResponse

\* txn.commit(), then Ok(image_id)
Commit(p) ==
    /\ pc[p] = "commit"
    /\ \/ /\ db' = Committed(p)
          /\ Return(p, "done", [kind |-> "Ok", at |-> "", id |-> new_image[p].id])
       \/ Abort(p, "commit")
    /\ UNCHANGED seq
    /\ q' = NoResponse

\* The host drops the call's future at the await it is suspended at.  The
\* DatabaseTransaction is dropped with it and its writes are rolled back; at
\* `txn.commit().await` the COMMIT may already be with the store when the
\* future is dropped, and then the store carries it out.
Cancel(p) ==
    /\ pc[p] \in {"resolve", "link", "upload", "commit"}
    /\ \/ db' = RolledBack(p)
       \/ /\ pc[p] = "commit"
          /\ db' = Committed(p)
    /\ Return(p, "cancelled", [kind |-> "Cancelled", at |-> "", id |-> 0])
    /\ UNCHANGED seq
    /\ q' = NoResponse

\* ------------------------------------------------------------------ query_images
\* (mutant) a read that also sees the rows of open transactions
SnapshotReadUncommitted ==
    [image |-> db.image \cup UNION {txn[p].image : p \in Calls},
     tag |-> db.tag \cup UNION {txn[p].tag : p \in Calls},
     image_tag |-> db.image_tag \cup UNION {txn[p].image_tag : p \in Calls}]

\* What a statement on the plain DatabaseConnection reads: committed rows.
Snapshot == db

RECURSIVE Ascending(_)
\* the numbers of S in ascending order
Ascending(S) ==
    IF S = {} THEN <<>>
    ELSE LET m == CHOOSE x \in S : \A y \in S : x <= y
         IN <<m>> \o Ascending(S \ {m})

RECURSIVE Concat(_)
Concat(ss) == IF Len(ss) = 0 THEN <<>> ELSE Head(ss) \o Concat(Tail(ss))

\* (mutant) inner joins in place of the left joins: only images with a tag
InnerJoinRowsOrdered(S) ==
    LET RowsOf(image_id) ==
            LET im == CHOOSE r \in S.image : r.id = image_id
                found == {t \in S.tag : ImageTagRow(image_id, t.id) \in S.image_tag}
                ts == Ascending({t.id : t \in found})
            IN [k \in 1..Len(ts) |->
                    [image |-> im, tag |-> << CHOOSE t \in found : t.id = ts[k] >>]]
        ids == Ascending({r.id : r \in S.image})
    IN Concat([k \in 1..Len(ids) |-> RowsOf(ids[k])])

\* FROM image LEFT JOIN image_tag ON image.id = image_tag.image_id
\*            LEFT JOIN tag ON image_tag.tag_id = tag.id   ORDER BY image.id
\* (find_with_related(Tag)): rows (image, Option<tag>); an image with no
\* image_tag row gives one row with no tag.  Rows of one image are listed by
\* tag id (SQL leaves that order open; no claim reads it).
LeftJoinRows(S) ==
    LET RowsOf(image_id) ==
            LET im == CHOOSE r \in S.image : r.id = image_id
                linked == {it.tag_id : it \in {x \in S.image_tag : x.image_id = image_id}}
                found == {t \in S.tag : t.id \in linked}
                dangling == {id \in linked : ~\E t \in S.tag : t.id = id}
                ts == Ascending({t.id : t \in found})
            IN IF linked = {} THEN << [image |-> im, tag |-> <<>>] >>
               ELSE [k \in 1..Len(ts) |->
                        [image |-> im, tag |-> << CHOOSE t \in found : t.id = ts[k] >>]]
                    \o [k \in 1..Cardinality(dangling) |-> [image |-> im, tag |-> <<>>]]
        ids == Ascending({r.id : r \in S.image})
    IN Concat([k \in 1..Len(ids) |-> RowsOf(ids[k])])

\* FROM image INNER JOIN image_tag .. INNER JOIN tag ..: the set of joined
\* (image, tag) rows, one per image_tag row whose image and tag exist
InnerJoinRows(S) ==
    {[image |-> im, tag |-> t] : <<im, t>> \in
        {pr \in S.image \X S.tag :
            ImageTagRow(pr[1].id, pr[2].id) \in S.image_tag}}

\* (mutant) an empty list of names is no constraint
NameIsInOrNoNames(row, names) ==
    \/ Len(names) = 0
    \/ /\ Len(row.tag) = 1
       /\ \E k \in 1..Len(names) : row.tag[1].name = names[k]

\* tag.name IN (names): never true of a row without a tag, nor for no names
NameIsIn(row, names) ==
    /\ Len(row.tag) = 1
    /\ \E k \in 1..Len(names) : row.tag[1].name = names[k]

RECURSIVE ConsolidateEachRow(_, _)
\* (mutant) every row becomes a pair of its own
ConsolidateEachRow(rows, acc) ==
    IF Len(rows) = 0 THEN acc
    ELSE ConsolidateEachRow(Tail(rows),
            Append(acc, [image |-> Head(rows).image, tags |-> Head(rows).tag]))

RECURSIVE Consolidate(_, _)
\* the (Model, Vec<Model>) pairs that .all() makes of the ordered rows: a row
\* whose image has the id of the last pair's image adds its tag to that pair
Consolidate(rows, acc) ==
    IF Len(rows) = 0 THEN acc
    ELSE LET r == Head(rows)
             n == Len(acc)
         IN IF n > 0 /\ acc[n].image.id = r.image.id /\ Len(r.tag) = 1
            THEN Consolidate(Tail(rows),
                    [acc EXCEPT ![n].tags = Append(@, r.tag[1])])
            ELSE Consolidate(Tail(rows),
                    Append(acc, [image |-> r.image, tags |-> r.tag]))

\* the ImageResult built from an (image, tags) pair
ImageResult(pair) ==
    [url |-> pair.image.url,
     tags |-> [k \in 1..Len(pair.tags) |-> pair.tags[k].name],
     label |-> pair.image.label,
     id |-> pair.image.id]

\* HAVING COUNT(*) = num_tags, num_tags being tags.len()
HavingCount(count, tags) == count = Len(tags)

\* get_image_ids_that_have_all_tags
get_image_ids_that_have_all_tags(tags, S) ==
    LET matched == {r \in InnerJoinRows(S) :
                        \E k \in 1..Len(tags) : r.tag.name = tags[k]}
        Count(image_id) == Cardinality({r \in matched : r.image.id = image_id})
    IN {id \in {r.image.id : r \in matched} : HavingCount(Count(id), tags)}

\* the rows each TagFilter variant selects
FilteredRows(filter, S) ==
    IF filter.kind = "None" THEN LeftJoinRows(S)
    ELSE IF filter.kind = "ContainsSomeTags"
    THEN LET Keep(row) == NameIsIn(row, filter.tags)
         IN SelectSeq(LeftJoinRows(S), Keep)
    ELSE LET image_ids == get_image_ids_that_have_all_tags(filter.tags, S)
             Keep(row) == row.image.id \in image_ids
         IN SelectSeq(LeftJoinRows(S), Keep)

query_images(filter, S) ==
    LET images_with_tags == Consolidate(FilteredRows(filter, S), <<>>)
    IN [k \in 1..Len(images_with_tags) |-> ImageResult(images_with_tags[k])]

TagFilters ==
    {NoFilter} \cup
    {[kind |-> k, tags |-> l] :
        k \in {"ContainsSomeTags", "ContainsAllTags"}, l \in SeqsUpTo(Names, MaxQueryTags)}

\* One run of query_images that the store answers.  The ContainsAllTags
\* branch issues two statements; committed images and their links never
\* change, so the second reads, for the ids the first returned, what the
\* first would have.
QueryImages(filter) ==
    /\ q' = [NoResponse EXCEPT
                !.op = "query_images", !.filter = filter, !.status = 200,
                !.out = query_images(filter, Snapshot)]
    /\ UNCHANGED <<db, seq, pc, args, resolving, new_image, txn, ret>>

\* (mutant) a store error answered as if the row were missing
from_DbErr_as_not_found(err) == [code |-> 404, msg |-> "Database error: " \o err]

\* impl From<DbErr> for ServerError: what `?` makes of a store error
from_DbErr(err) == [code |-> 500, msg |-> "Database error: " \o err]

\* query_image_by_id.  `fault` is the statement at which the store fails in
\* this run, if any: "find" (Image::find()..one), "find_related"
\* (image.find_related(Tag).all, which runs only if a row was found) or "none".
query_image_by_id(id, S, fault) ==
    LET image == {r \in S.image : r.id = id} IN
    IF fault = "find"
    THEN [status |-> from_DbErr("find").code, out |-> <<>>, db_err |-> TRUE]
    ELSE IF image = {}
    THEN [status |-> 404, out |-> <<>>, db_err |-> FALSE]
    ELSE IF fault = "find_related"
    THEN [status |-> from_DbErr("find_related").code, out |-> <<>>, db_err |-> TRUE]
    ELSE LET im == CHOOSE r \in image : TRUE
             tags == Ascending({r.tag.id : r \in
                          {x \in InnerJoinRows(S) : x.image.id = id}})
             pair == [image |-> im,
                      tags |-> [k \in 1..Len(tags) |->
                                  CHOOSE t \in S.tag : t.id = tags[k]]]
         IN [status |-> 200, out |-> << ImageResult(pair) >>, db_err |-> FALSE]

RECURSIVE split(_)
\* str::split(","): the pieces between the commas, at least one
split(s) ==
    IF \E k \in 1..Len(s) : s[k] = ","
    THEN LET k == CHOOSE i \in 1..Len(s) :
                    s[i] = "," /\ \A j \in 1..(i - 1) : s[j] # ","
         IN << Join(SubSeq(s, 1, k - 1), "") >> \o split(SubSeq(s, k + 1, Len(s)))
    ELSE << Join(s, "") >>

\* the match on (objects, some_objects): the TagFilter, or a 400 for both
get_images_filter(query_params) ==
    IF Len(query_params.objects) = 1 /\ Len(query_params.some_objects) = 0
    THEN [ok |-> TRUE, code |-> 0,
          filter |-> [kind |-> "ContainsAllTags", tags |-> split(query_params.objects[1])]]
    ELSE IF Len(query_params.objects) = 0 /\ Len(query_params.some_objects) = 1
    THEN [ok |-> TRUE, code |-> 0,
          filter |-> [kind |-> "ContainsSomeTags",
                      tags |-> split(query_params.some_objects[1])]]
    ELSE IF Len(query_params.objects) = 0 /\ Len(query_params.some_objects) = 0
    THEN [ok |-> TRUE, code |-> 0, filter |-> NoFilter]
    ELSE [ok |-> FALSE, code |-> 400, filter |-> NoFilter]

\* GET /images: the 400 by `?` before query_images, or one run of it that
\* the store answers
GetImages(query_params) ==
    /\ LET f == get_images_filter(query_params)
       IN q' = [NoResponse EXCEPT
                   !.op = "get_images",
                   !.request.objects = query_params.objects,
                   !.request.some_objects = query_params.some_objects,
                   !.filter = f.filter,
                   !.status = IF f.ok THEN 200 ELSE f.code,
                   !.out = IF f.ok THEN query_images(f.filter, Snapshot) ELSE <<>>]
    /\ UNCHANGED <<db, seq, pc, args, resolving, new_image, txn, ret>>

StoreFaults == {"none", "find", "find_related"}

\* GET /image/:id: one run of query_image_by_id
QueryImageById(id, fault) ==
    /\ LET r == query_image_by_id(id, Snapshot, fault)
       IN q' = [NoResponse EXCEPT
                   !.op = "query_image_by_id", !.id = id, !.status = r.status,
                   !.out = r.out, !.db_err = r.db_err]
    /\ UNCHANGED <<db, seq, pc, args, resolving, new_image, txn, ret>>

\* ------------------------------------------------------------------ specifications
\* Concurrent requests: calls of execute_insert_image interleave at their
\* awaits with each other and with reads by id and unfiltered listings that
\* the store answers.
Next ==
    \/ \E p \in Calls :
        \/ Begin(p)
        \/ \E i \in 1..MaxTags : GetTagIdFind(p, i)
        \/ \E i \in 1..MaxTags : GetTagIdInsert(p, i)
        \/ ResolveFailed(p)
        \/ InsertImage(p)
        \/ InsertImageTags(p)
        \/ UploadAndUpdateUrl(p)
        \/ Commit(p)
    \/ \E id \in 1..MaxCalls : QueryImageById(id, "none")
    \/ QueryImages(NoFilter)

Spec == Init /\ [][Next]_vars

\* Requests served one at a time: a call steps only while no other call is
\* in flight; every kind of listing runs between the steps.
Alone(p) == \A o \in Calls \ {p} : pc[o] \in {"idle", "done", "failed", "panicked", "cancelled"}

NextQuery ==
    \/ \E p \in Calls :
        \/ Alone(p) /\ Begin(p)
        \/ \E i \in 1..MaxTags : Alone(p) /\ GetTagIdFind(p, i)
        \/ \E i \in 1..MaxTags : Alone(p) /\ GetTagIdInsert(p, i)
        \/ Alone(p) /\ ResolveFailed(p)
        \/ Alone(p) /\ InsertImage(p)
        \/ Alone(p) /\ InsertImageTags(p)
        \/ Alone(p) /\ UploadAndUpdateUrl(p)
        \/ Alone(p) /\ Commit(p)
    \/ \E filter \in TagFilters : QueryImages(filter)

SpecQuery == Init /\ [][NextQuery]_vars

\* Concurrent calls that the host may cancel: calls of execute_insert_image
\* interleave at their awaits, and a call in flight may be dropped at any of
\* them.
NextCancel ==
    \E p \in Calls :
        \/ Begin(p)
        \/ \E i \in 1..MaxTags : GetTagIdFind(p, i)
        \/ \E i \in 1..MaxTags : GetTagIdInsert(p, i)
        \/ ResolveFailed(p)
        \/ InsertImage(p)
        \/ InsertImageTags(p)
        \/ UploadAndUpdateUrl(p)
        \/ Commit(p)
        \/ Cancel(p)

SpecCancel == Init /\ [][NextCancel]_vars

\* The route handlers, one request at a time: POST /images (refused, or
\* carried out step by step), GET /images with its query parameters and
\* GET /image/:id, whose store statements may fail.
NextRoutes ==
    \/ PostImageBadRequest
    \/ \E p \in Calls :
        \/ Alone(p) /\ Begin(p)
        \/ \E i \in 1..MaxTags : Alone(p) /\ GetTagIdFind(p, i)
        \/ \E i \in 1..MaxTags : Alone(p) /\ GetTagIdInsert(p, i)
        \/ Alone(p) /\ ResolveFailed(p)
        \/ Alone(p) /\ InsertImage(p)
        \/ Alone(p) /\ InsertImageTags(p)
        \/ Alone(p) /\ UploadAndUpdateUrl(p)
        \/ Alone(p) /\ Commit(p)
    \/ \E query_params \in GetImagesQueryParams : GetImages(query_params)
    \/ \E id \in 1..MaxCalls, fault \in StoreFaults : QueryImageById(id, fault)

SpecRoutes == Init /\ [][NextRoutes]_vars

\* ------------------------------------------------------------------ claims
\* the tag names associated with an image, read off the tables
TagNamesOf(image_id, S) ==
    {t.name : t \in {x \in S.tag : ImageTagRow(image_id, x.id) \in S.image_tag}}

ImageIds(S) == {r.id : r \in S.image}
TagIds(S) == {r.id : r \in S.tag}

\* C1: execute_insert_image is all-or-nothing.  No row written by a
\* transaction that has not committed is among the committed rows, and the
\* step in which a call returns a store error (at begin, tag lookup or
\* insert, image insert, junction insert, url update or commit) leaves the
\* committed image, tag and image_tag tables as they were.
C1_AllOrNothing ==
    /\ [](\A p \in Calls :
            /\ ImageIds(txn[p]) \cap ImageIds(db) = {}
            /\ TagIds(txn[p]) \cap TagIds(db) = {}
            /\ txn[p].image_tag \cap db.image_tag = {})
    /\ [][\A p \in Calls :
            (ret[p].kind = "None" /\ ret'[p].kind = "Err") => db' = db]_vars

\* a call has failed at the junction insert, after its Image row (and a Tag
\* row) had been written, while another call's rows are committed
C1_Witness ==
    \E p, o \in Calls :
        /\ ret[p].kind = "Err" /\ ret[p].at = "junction_insert"
        /\ ret[o].kind = "Ok"
        /\ db.image # {} /\ db.tag # {}
        /\ seq.image = 3

\* C2: in every committed state no two Tag rows have the same name, also
\* when concurrent transactions resolve the same unseen name.  (Stated for
\* rows that no single image is linked to both of, so that a violation is
\* the race between two transactions, not the one inside a call of C3.)
C2_OneTagRowPerName ==
    \A t1, t2 \in db.tag :
        (/\ t1.name = t2.name
         /\ ~\E im \in db.image :
                {ImageTagRow(im.id, t1.id), ImageTagRow(im.id, t2.id)} \subseteq db.image_tag)
        => t1.id = t2.id

C4_NoDuplicatePairAttempted ==
    \A p \in Calls :
        pc[p] = "link" =>
            \A i, j \in 1..Len(image_tags(p)) :
                image_tags(p)[i] = image_tags(p)[j] => i = j

\* the ids of the images a response lists
OutIds(resp) == {resp.out[k].id : k \in 1..Len(resp.out)}
ListedOnce(resp) ==
    \A i, j \in 1..Len(resp.out) : resp.out[i].id = resp.out[j].id => i = j

\* C5: query_images(ContainsAllTags(names)) returns exactly the images whose
\* tag names include every name of `names` (a list that repeats a name
\* matching like the list without the repetition).
C5_ContainsAllIsSuperset ==
    (q.op = "query_images" /\ q.filter.kind = "ContainsAllTags"
        /\ Len(q.filter.tags) > 0)
    => OutIds(q) = {id \in ImageIds(db) :
                        Range(q.filter.tags) \subseteq TagNamesOf(id, db)}

\* C6: query_images(ContainsSomeTags(names)) returns exactly the images with
\* at least one tag whose name is in `names`, each of them once.
C6_ContainsSomeExactlyOnce ==
    (q.op = "query_images" /\ q.filter.kind = "ContainsSomeTags")
    => /\ OutIds(q) = {id \in ImageIds(db) :
                          Range(q.filter.tags) \cap TagNamesOf(id, db) # {}}
       /\ ListedOnce(q)

\* a ContainsSomeTags response that lists an image matching two of the
\* requested names and leaves out another committed image
C6_Witness ==
    /\ q.op = "query_images" /\ q.filter.kind = "ContainsSomeTags"
    /\ Len(q.out) = 1
    /\ Cardinality(Range(q.out[1].tags) \cap Range(q.filter.tags)) = 2
    /\ Cardinality(db.image) = 2

\* C7: for every filter, each ImageResult carries the complete set of the
\* image's tag names.
C7_CompleteTagsEveryFilter ==
    q.op = "query_images"
    => \A k \in 1..Len(q.out) : Range(q.out[k].tags) = TagNamesOf(q.out[k].id, db)

\* C8: query_images(None) returns every committed image exactly once, each
\* with its complete tag set; an image without tags is listed with no tags.
C8_NoFilterComplete ==
    (q.op = "query_images" /\ q.filter.kind = "None")
    => /\ OutIds(q) = ImageIds(db)
       /\ ListedOnce(q)
       /\ \A k \in 1..Len(q.out) :
            /\ Range(q.out[k].tags) = TagNamesOf(q.out[k].id, db)
            /\ ImageRow(q.out[k].id, q.out[k].label, q.out[k].url) \in db.image

\* an unfiltered response listing an image without tags and a tagged one
C8_Witness ==
    /\ q.op = "query_images" /\ q.filter.kind = "None"
    /\ Len(q.out) = 2
    /\ \E k \in 1..2 : q.out[k].tags = <<>>
    /\ \E k \in 1..2 : Len(q.out[k].tags) = 2

\* C9: a call with raw image data that returns Ok has committed its Image
\* row with the upload URL of the row's own id, and no read, at any time,
\* returns an image whose url is the placeholder.
C9_NeverThePlaceholder ==
    /\ [](\A k \in 1..Len(q.out) : q.out[k].url # "temporary")
    /\ [][\A p \in Calls :
            (/\ args[p].image_input.kind = "ImageBase64"
             /\ ret[p].kind = "None" /\ ret'[p].kind = "Ok")
            => ImageRow(ret'[p].id, new_image[p].label, upload(ret'[p].id)) \in db'.image]_vars

\* a read returns a committed raw-data image while another raw-data call
\* holds its uncommitted row with the placeholder
C9_Witness ==
    /\ q.status = 200
    /\ \E k \in 1..Len(q.out) : q.out[k].url = upload(q.out[k].id)
    /\ \E p \in Calls : \E r \in txn[p].image : r.url = "temporary"

\* C10: a failure of the upload is returned to the caller as an error (an
\* external-collaborator failure), and nothing of the call is committed.
C10_UploadFailureIsAnError ==
    \A p \in Calls :
        ret[p].at = "upload" =>
            /\ ret[p].kind = "Err"
            /\ \A r \in db.image : r.url # "temporary"

\* C11: query_image_by_id answers 404 exactly when the lookup ran without a
\* store error and no Image row has the id, and 500 exactly when the store
\* failed during the lookup: a store failure is never reported as not-found,
\* and a missing row is never reported as a store failure.
C11_NotFoundIsNotStoreFailure ==
    q.op = "query_image_by_id" =>
        /\ q.status \in {200, 404, 500}
        /\ q.status = 500 <=> q.db_err
        /\ q.status = 404 <=> (~q.db_err /\ q.id \notin ImageIds(db))
        /\ q.status = 200 <=> (~q.db_err /\ q.id \in ImageIds(db))

\* the store fails on the lookup of an id that no Image row has, while
\* another image is stored: the answer is 500, not 404
C11_Witness ==
    /\ q.op = "query_image_by_id"
    /\ q.status = 500
    /\ q.id \notin ImageIds(db)
    /\ db.image # {}

\* C12: execute_insert_image with an empty tag list completes successfully.
\* Unless the store fails or the call is cancelled, the insert_many step of such a call goes on to the
\* commit with exactly one Image row written, no Tag row and no ImageTag row,
\* and with no caller label the Image row's label is "An untagged image".
C12_EmptyTagListSucceeds ==
    [][\A p \in Calls :
          (pc[p] = "link" /\ Len(args[p].tags) = 0 /\ pc'[p] # "link") =>
              \/ ret'[p].at = "junction_insert"
              \/ ret'[p].kind = "Cancelled"
              \/ /\ pc'[p] \in {"upload", "commit"}
                 /\ Cardinality(txn'[p].image) = 1
                 /\ txn'[p].tag = {}
                 /\ txn'[p].image_tag = {}
                 /\ args[p].label = <<>> =>
                        \A r \in txn'[p].image : r.label = "An untagged image"]_vars

RECURSIVE CommaSeparated(_, _)
\* the first k names of tags, in input order, with ", " between them
CommaSeparated(tags, k) ==
    IF k = 1 THEN tags[1] ELSE CommaSeparated(tags, k - 1) \o ", " \o tags[k]

\* the label the Image row of a call is to have
ExpectedLabel(tags, label) ==
    IF label # <<>> THEN label[1]
    ELSE IF tags = <<>> THEN "An untagged image"
    ELSE "An image containing " \o CommaSeparated(tags, Len(tags)) \o "."

\* C13: the label stored with an image is the caller's label whenever one is
\* given; otherwise it is "An untagged image" for an empty tag list and
\* "An image containing " + the names joined by ", " in input order + "."
\* for a non-empty one.
C13_StoredLabel ==
    \A p \in Calls :
        pc[p] \in {"link", "upload", "commit"} =>
            /\ Cardinality(txn[p].image) = 1
            /\ \A r \in txn[p].image :
                  r.label = ExpectedLabel(args[p].tags, args[p].label)

\* two names and no caller label: the synthesized sentence is about to be
\* committed
C13_Witness ==
    \E p \in Calls :
        /\ pc[p] = "commit"
        /\ args[p].tags = <<"cat", "dog">>
        /\ args[p].label = <<>>
        /\ \A r \in txn[p].image : r.label = "An image containing cat, dog."

\* the step in which call p is cancelled
Cancelled(p) == ret[p].kind = "None" /\ ret'[p].kind = "Cancelled"

\* C14 as stated: a call cancelled at any await from the begin to the end of
\* the commit leaves the committed store as it was.
C14_CancelledAnywhereRollsBack ==
    [][\A p \in Calls : Cancelled(p) => db' = db]_vars

\* C14, amended: a call cancelled at an await before txn.commit() leaves the
\* committed store as it was: none of its Tag, Image or ImageTag rows becomes
\* visible.  A call cancelled at txn.commit().await leaves either the store
\* as it was or all of the call's rows committed, never a part of them.
C14_CancelledRollsBackBeforeCommit ==
    [][\A p \in Calls :
          Cancelled(p) =>
              /\ pc[p] # "commit" => db' = db
              /\ \/ db' = db
                 \/ /\ db'.image = db.image \cup txn[p].image
                    /\ db'.tag = db.tag \cup txn[p].tag
                    /\ db'.image_tag = db.image_tag \cup txn[p].image_tag]_vars

\* the only call that began was cancelled after its Image insert and its Tag
\* insert had taken ids, and the committed tables are empty
C14_Witness ==
    /\ pc[1] = "cancelled"
    /\ \A o \in Calls \ {1} : pc[o] = "idle"
    /\ seq.image = 2
    /\ seq.tag = 2
    /\ db = EmptyTables

\* exactly one of the two image fields of a request is given
OneImageField(request) == Len(request.image_url) + Len(request.image_base64) = 1

\* C15: contradictory input is answered 400 before the store is touched.
\* A POST /images request with both or neither of image_url and image_base64
\* is never the request of a call that got to write, and its 400 comes in a
\* step that starts no call and changes no table, counter or transaction; a
\* GET /images request is answered 400 exactly when it has both objects and
\* some_objects, with no filter built and no result read.
C15_ContradictoryInputRejected ==
    /\ [](\A p \in Calls :
            pc[p] \in {"link", "upload", "commit"} => OneImageField(args[p].request))
    /\ [](q.op = "post_image" => q.status = 400 /\ ~OneImageField(q.request))
    /\ [](q.op = "get_images" =>
            /\ q.status = 400 <=>
                  (Len(q.request.objects) = 1 /\ Len(q.request.some_objects) = 1)
            /\ q.status = 400 => (q.filter = NoFilter /\ q.out = <<>>)
            /\ q.status # 400 => q.status = 200)
    /\ [][(q'.op \in {"post_image", "get_images"} /\ q'.status = 400) =>
            UNCHANGED <<db, seq, pc, args, resolving, new_image, txn, ret>>]_vars

\* a request with both image fields is refused while a call is in flight
\* with rows written
C15_Witness ==
    /\ q.op = "post_image"
    /\ q.status = 400
    /\ Len(q.request.image_url) = 1
    /\ Len(q.request.image_base64) = 1
    /\ \E p \in Calls : pc[p] = "link"

\* C16: every tag resolution has completed before the Image insert is
\* issued, and a failed resolution ends the call before it: a call that is
\* past the Image insert has a finished, successful resolution for each of
\* its tags; a call with a failed resolution has written no Image and no
\* ImageTag row and is still at the join; and the step that returns the
\* resolution error is taken from the join, with every resolution finished,
\* and commits nothing.
C16_ResolveBeforeImageInsert ==
    /\ [](\A p \in Calls :
            pc[p] \in {"link", "upload", "commit"} =>
                /\ Len(resolving[p]) = Len(args[p].tags)
                /\ \A i \in 1..Len(resolving[p]) : resolving[p][i].st = "done")
    /\ [](\A p \in Calls :
            (\E i \in 1..Len(resolving[p]) : resolving[p][i].st = "err") =>
                /\ pc[p] = "resolve"
                /\ txn[p].image = {}
                /\ txn[p].image_tag = {}
                /\ new_image[p] = NoImage)
    /\ [][\A p \in Calls :
            (ret[p].kind = "None" /\ ret'[p].at = "resolve") =>
                /\ pc[p] = "resolve"
                /\ \A i \in 1..Len(resolving[p]) : resolving[p][i].st \in {"done", "err"}
                /\ \E i \in 1..Len(resolving[p]) : resolving[p][i].st = "err"
                /\ db' = db]_vars

\* a call returned the error of a failed resolution after another of its
\* resolutions had inserted a Tag row: no image id was taken, nothing is
\* committed
C16_Witness ==
    /\ ret[1].kind = "Err"
    /\ ret[1].at = "resolve"
    /\ seq.tag = 2
    /\ seq.image = 1
    /\ db = EmptyTables

\* C17: in every committed state each ImageTag row references an Image row
\* and a Tag row that exist, and no (image, tag) pair is stored twice: the
\* rows a call's insert_many adds are pairwise different pairs that no row
\* it can see has, and the ImageTag rows a commit adds are pairs the
\* committed table did not have.  Calls interleave, fail and are cancelled.
C17_JunctionIntegrity ==
    /\ [](\A it \in db.image_tag :
            it.image_id \in ImageIds(db) /\ it.tag_id \in TagIds(db))
    /\ [][\A p \in Calls :
            /\ (pc[p] = "link" /\ pc'[p] \in {"upload", "commit"}) =>
                  /\ \A i, j \in 1..Len(image_tags(p)) :
                        image_tags(p)[i] = image_tags(p)[j] => i = j
                  /\ Range(image_tags(p)) \cap (db.image_tag \cup txn[p].image_tag) = {}
                  /\ Cardinality(txn'[p].image_tag) =
                        Cardinality(txn[p].image_tag) + Len(image_tags(p))
            /\ (pc[p] = "commit" /\ pc'[p] # "commit" /\ db' # db) =>
                  /\ txn[p].image_tag \cap db.image_tag = {}
                  /\ Cardinality(db'.image_tag) =
                        Cardinality(db.image_tag) + Cardinality(txn[p].image_tag)]_vars

\* an image is committed with two junction rows while the other call was
\* cancelled
C17_Witness ==
    /\ Cardinality(db.image_tag) = 2
    /\ Cardinality(db.image) = 1
    /\ \E p \in Calls : pc[p] = "cancelled"

\* the images a listing returned, as a set
OutSet(resp) == {resp.out[k] : k \in 1..Len(resp.out)}

\* C18: an empty requested tag list gets the same policy from both filtered
\* variants: over the same committed tables, query_images with
\* ContainsSomeTags([]) and with ContainsAllTags([]) return the same set of
\* images (here: both return none).
C18_EmptyListSamePolicy ==
    /\ OutSet([out |-> query_images([kind |-> "ContainsSomeTags", tags |-> <<>>], db)])
         = OutSet([out |-> query_images([kind |-> "ContainsAllTags", tags |-> <<>>], db)])
    /\ (q.op = "query_images" /\ q.filter.kind # "None" /\ q.filter.tags = <<>>) =>
            q.out = <<>>

\* ContainsAllTags([]) was run over tables that hold a tagged and an
\* untagged image
C18_Witness ==
    /\ q.op = "query_images"
    /\ q.filter = [kind |-> "ContainsAllTags", tags |-> <<>>]
    /\ \E a, b \in db.image :
          /\ TagNamesOf(a.id, db) = {}
          /\ TagNamesOf(b.id, db) # {}

====
